---- MODULE Spec2Model ----
(***************************************************************************)
(* Timension: the AI service module (services/geminiService.ts), the       *)
(* feedback store client and the application shell (App.tsx).              *)
(*                                                                         *)
(* Every JavaScript value is a record tagged by the field t:               *)
(*   [t |-> "null"], [t |-> "undefined"], [t |-> "num"], [t |-> "bool"],   *)
(*   [t |-> "str", v |-> <<chunks>>] (the string is the concatenation of   *)
(*   its chunks, <<>> is the empty string), [t |-> "array", items |-> s],  *)
(*   [t |-> "jobj", ...] (an object with the fields the code reads).       *)
(***************************************************************************)
EXTENDS Integers, Sequences, FiniteSets, TLC

\* ---------------------------------------------------------------- bounds
MaxParts == 2
MaxTimeline == 3
MaxRows == 2
MaxLines == 4
MaxPending == 2
MaxSends == 2

\* ------------------------------------------------------------ JS values
Null == [t |-> "null"]
Undef == [t |-> "undefined"]
Num == [t |-> "num"]
Bool(b) == [t |-> "bool", v |-> b]
Str(s) == [t |-> "str", v |-> s]
Arr(s) == [t |-> "array", items |-> s]

\* JavaScript truthiness of the values the code tests with !x, x || y, if (x)
Truthy(x) ==
  CASE x.t = "null" -> FALSE
    [] x.t = "undefined" -> FALSE
    [] x.t = "str" -> x.v # <<>>
    [] x.t = "bool" -> x.v
    [] OTHER -> TRUE

\* a || b
Or(a, b) == IF Truthy(a) THEN a ELSE b

\* ------------------------------------------------------ credential store
ManualKeys == {Str(<<>>), Str(<<"k1">>), Str(<<"k2">>)}
EnvKeys == {Undef, Str(<<"env">>)}

VARIABLES
  envKey,          \* process.env.API_KEY
  manualApiKey,    \* let manualApiKey
  op,              \* the service operation being executed, "none" before the first
  pc,              \* its position: an await it is suspended at, or "done"
  arg,             \* its argument: a location, a suggestion text, or "-"
  ai,              \* the client built by getClient() at the start of the operation
  text,            \* response.text of the text request
  parsed,          \* the article / result held across the await of generateImage
  img,             \* the generateImage calls of the operation, by slot
  images,          \* generateHistoricalPhotos: const images
  requests,        \* requests issued by the operation, by kind
  netlog,          \* outcome of each request of the operation, in completion order
  result,          \* the value the operation resolved to
  threw,           \* the operation rejected / threw to its caller
  retLine,         \* the source line of the return statement that produced result
  session,         \* App: session
  currentSection,  \* App: currentSection
  isProfileOpen,   \* App: isProfileOpen
  apiKeySet,       \* LoginView: apiKeySet
  loading,         \* LoginView: loading
  alerts,          \* number of alert() dialogs shown by the current login attempt
  locationInput,   \* Chronoscope: locationInput
  data,            \* Chronoscope: data
  view,            \* Chronoscope: view
  chronoLoading,   \* Chronoscope: loading
  chronoPending,   \* Chronoscope: the generator calls its handlers are awaiting
  lastLoad,        \* Chronoscope: the last handleLoad* call, and whether it called a generator
  selectedMentor,  \* MentorChat: selectedMentor
  messages,        \* MentorChat: messages
  input,           \* MentorChat: input
  chatLoading,     \* MentorChat: loading
  chatPending,     \* MentorChat: the chatWithMentor calls handleSend is awaiting
  chatClock        \* MentorChat: the number of messages sent since the mount

cred == <<envKey, manualApiKey>>
call == <<op, pc, arg, ai, text, parsed, img, images, requests, netlog, result, threw, retLine>>
shell == <<session, currentSection, isProfileOpen, apiKeySet, loading, alerts>>
chrono == <<locationInput, data, view, chronoLoading, chronoPending, lastLoad>>
mentor == <<selectedMentor, messages, input, chatLoading, chatPending, chatClock>>
views == <<chrono, mentor>>
vars == <<cred, call, shell, views>>

\* hasGlobalApiKey()
hasGlobalApiKey == Truthy(Or(envKey, manualApiKey))

\* the credential getClient resolves: manualApiKey || process.env.API_KEY
apiKey == Or(manualApiKey, envKey)

\* getClient without the test of line 16
getClientUnchecked == [t |-> "client", apiKey |-> apiKey]

\* getClient(): null without a credential, else a client holding the key
getClient == IF ~Truthy(apiKey) THEN Null ELSE [t |-> "client", apiKey |-> apiKey]

\* ------------------------------------------------- image responses (41-63)
Slots == {1, 2}

\* a part of a candidate: a text part, or an inline image whose payload is
\* determined by the request (slot) and the position of the part
TextPart == [kind |-> "text", data |-> ""]
InlinePart(slot, i) == [kind |-> "inlineData", data |-> "img" \o ToString(slot) \o "_" \o ToString(i)]

PartLists(slot) ==
  UNION {{[i \in 1..n |-> IF i \in S THEN InlinePart(slot, i) ELSE TextPart] : S \in SUBSET (1..n)}
         : n \in 0..MaxParts}

\* a candidate without content.parts, or with a list of parts
NoPartsCandidate == [hasParts |-> FALSE, parts |-> <<>>]
Candidate(parts) == [hasParts |-> TRUE, parts |-> parts]

CandidateLists(slot) ==
  {<<>>}
  \cup {<<NoPartsCandidate>>}
  \cup {<<Candidate(p)>> : p \in PartLists(slot)}
  \cup {<<c, Candidate(<<InlinePart(slot, 9)>>)>> : c \in {NoPartsCandidate, Candidate(<<TextPart>>)}}

NoResp == [t |-> "none"]
Fail == [t |-> "fail"]
ImageResponses(slot) == {Fail} \cup {[t |-> "resp", candidates |-> c] : c \in CandidateLists(slot)}

\* `data:image/png;base64,${part.inlineData.data}`
DataUri(base64) == Str(<<"data:image/png;base64,", base64>>)

\* for (const part of parts) if (part.inlineData) return ...
RECURSIVE ScanParts(_)
ScanParts(parts) ==
  IF parts = <<>> THEN Null
  ELSE IF Head(parts).kind = "inlineData" THEN DataUri(Head(parts).data)
  ELSE ScanParts(Tail(parts))

\* a scan that looks for inline data in every candidate, not only the first
RECURSIVE ScanResponseAnyCandidate(_)
ScanResponseAnyCandidate(resp) ==
  IF resp.candidates = <<>> THEN Null
  ELSE IF resp.candidates[1].hasParts /\ ScanParts(resp.candidates[1].parts) # Null
  THEN ScanParts(resp.candidates[1].parts)
  ELSE ScanResponseAnyCandidate([resp EXCEPT !.candidates = Tail(@)])

\* generateImage, lines 52-62, applied to a response that arrived
ScanResponse(resp) ==
  IF resp.candidates # <<>> /\ resp.candidates[1].hasParts
  THEN ScanParts(resp.candidates[1].parts)
  ELSE Null

\* -------------------------------------------- JSON text of the text step
\* A response text is a sequence of tokens: a code fence ```, the word json,
\* white space, a complete JSON value, or characters that are not JSON.
TFence == [t |-> "fence"]
TWord == [t |-> "word"]
TWs == [t |-> "ws"]
TJunk == [t |-> "junk"]
TJson(val) == [t |-> "json", val |-> val]

\* an object with the fields the generators read or write; a field the
\* object does not have is Undef
Obj(headline, date, content, weather, timelineSteps, finalHeadline) ==
  [t |-> "jobj", headline |-> headline, date |-> date, content |-> content,
   weather |-> weather, timelineSteps |-> timelineSteps,
   finalHeadline |-> finalHeadline, imageUrl |-> Undef]

\* a JSON array: an object none of whose named fields is set
JArray == [Obj(Undef, Undef, Undef, Undef, Undef, Undef) EXCEPT !.t = "jarr"]

Article(headline, date, content, weather) == Obj(headline, date, content, weather, Undef, Undef)
AltResult(timelineSteps, finalHeadline) == Obj(Undef, Undef, Undef, Undef, timelineSteps, finalHeadline)

S(c) == Str(<<c>>)

ArticleValues ==
  {Article(S("NATION WAKES UP"), S("1947"), S("dispatch"), S("Winds of Change")),
   Article(S("MOON REACHED"), S("1969"), S("dispatch"), S("Clear")),
   Article(Undef, S("1947"), S("dispatch"), S("Winds of Change")),
   Article(Num, S("1947"), S("dispatch"), S("Winds of Change")),
   Article(S("NATION WAKES UP"), S("1947"), S("dispatch"), Undef),
   Article(Undef, Undef, Undef, Undef),
   JArray, Null, Num}

Steps(n) == Arr([i \in 1..n |-> S("step" \o ToString(i))])

AltValues ==
  {AltResult(Steps(n), S("EMPIRE ENDURES")) : n \in 0..MaxTimeline}
  \cup {AltResult(ts, S("EMPIRE ENDURES")) : ts \in {Undef, Null, Num, Arr(<<S("step1"), Num, S("step3")>>)}}
  \cup {AltResult(Steps(3), h) : h \in {Undef, Num}}
  \cup {JArray, Null, Num}

\* the ways the service delivers a JSON payload
Bare(val) == <<TJson(val)>>
Padded(val) == <<TWs, TJson(val), TWs>>
FencedJson(val) == <<TFence, TWord, TWs, TJson(val), TWs, TFence>>
FencedPlain(val) == <<TFence, TWs, TJson(val), TWs, TFence>>

TextsOf(values) ==
  {Undef, Str(<<>>), Str(<<TJunk>>), Str(<<TFence, TWs, TWord, TJson(Num), TFence>>)}
  \cup {Str(Bare(v)) : v \in values}
  \cup {Str(Padded(v)) : v \in values}
  \cup {Str(FencedJson(v)) : v \in values}
  \cup {Str(FencedPlain(v)) : v \in values}

\* text.replace(/```json/g, '')
RECURSIVE RemoveFenceJson(_)
RemoveFenceJson(toks) ==
  IF toks = <<>> THEN <<>>
  ELSE IF Len(toks) >= 2 /\ toks[1].t = "fence" /\ toks[2].t = "word"
       THEN RemoveFenceJson(SubSeq(toks, 3, Len(toks)))
       ELSE <<Head(toks)>> \o RemoveFenceJson(Tail(toks))

\* text.replace(/```/g, '')
RemoveFence(toks) == SelectSeq(toks, LAMBDA k : k.t # "fence")

\* text.trim()
RECURSIVE TrimStart(_)
TrimStart(toks) ==
  IF toks # <<>> /\ Head(toks).t = "ws" THEN TrimStart(Tail(toks)) ELSE toks

RECURSIVE TrimEnd(_)
TrimEnd(toks) ==
  IF toks # <<>> /\ toks[Len(toks)].t = "ws" THEN TrimEnd(SubSeq(toks, 1, Len(toks) - 1)) ELSE toks

Trim(toks) == TrimEnd(TrimStart(toks))

\* line 292: text.replace(/```json/g, '').replace(/```/g, '').trim()
StripFences(toks) == Trim(RemoveFence(RemoveFenceJson(toks)))

\* JSON.parse: white space around one JSON value is accepted, anything else
\* is a SyntaxError
SyntaxError == [t |-> "SyntaxError"]
JSONParse(toks) ==
  LET body == SelectSeq(toks, LAMBDA k : k.t # "ws")
  IN IF Len(body) = 1 /\ body[1].t = "json" THEN body[1].val ELSE SyntaxError

\* ------------------------------------------------- trivia text (203-209)
\* A line is a sequence of characters; a text is the sequence of its lines
\* (the empty string is Str(<<>>)).
Digits == {"1", "2"}
Line(prefix, n) == prefix \o [i \in 1..n |-> "a"]

TriviaLines ==
  {Line(<<"1", ")">>, 8),
   Line(<<>>, 11),
   Line(<<"1", ".", " ">>, 11)}

TriviaTexts ==
  {Undef, Str(<<>>)} \cup {Str(ls) : ls \in UNION {[1..n -> TriviaLines] : n \in 1..MaxLines}}

\* the lines the trivia claims are about: plain lines of 9, 10 and 11
\* characters, an empty line, markers with '.' and ')', a marker of two
\* digits, a repeated marker and a marker after a space
TriviaLinesRich ==
  {<<>>,
   Line(<<>>, 9),
   Line(<<>>, 10),
   Line(<<>>, 11),
   Line(<<"1", ".", " ">>, 11),
   Line(<<"2", ")", " ">>, 8),
   Line(<<"1", "2", ")">>, 9),
   Line(<<"1", ".", " ", "2", ".", " ">>, 8),
   Line(<<" ", "1", ".", " ">>, 10)}

\* (one empty line alone is the empty string, which is Str(<<>>))
TriviaTextsRich ==
  {Undef, Str(<<>>)} \cup
  {Str(ls) : ls \in UNION {[1..n -> TriviaLinesRich] : n \in 1..MaxLines} \ {<< <<>> >>}}

\* text.split('\n')
Split(v) == IF v = <<>> THEN << <<>> >> ELSE v

RECURSIVE LeadingDigits(_)
LeadingDigits(l) ==
  IF l # <<>> /\ Head(l) \in Digits THEN 1 + LeadingDigits(Tail(l)) ELSE 0

RECURSIVE SkipSpaces(_)
SkipSpaces(l) == IF l # <<>> /\ Head(l) = " " THEN SkipSpaces(Tail(l)) ELSE l

\* l.replace(/^\d+[\.\)]\s*/, '')
StripMarker(l) ==
  LET nd == LeadingDigits(l)
  IN IF nd >= 1 /\ Len(l) > nd /\ l[nd + 1] \in {".", ")"}
     THEN SkipSpaces(SubSeq(l, nd + 2, Len(l)))
     ELSE l

\* the cap applied before the length filter
TriviaOfSliceFirst(v) ==
  LET first == SubSeq(Split(v), 1, IF Len(Split(v)) < 3 THEN Len(Split(v)) ELSE 3)
      lines == SelectSeq(first, LAMBDA l : Len(l) > 10)
  IN [i \in 1..Len(lines) |-> StripMarker(lines[i])]

\* text.split('\n').filter(line => line.length > 10).slice(0, 3)
\*     .map(l => l.replace(...))
TriviaOf(v) ==
  LET kept == SelectSeq(Split(v), LAMBDA l : Len(l) > 10)
      lines == SubSeq(kept, 1, IF Len(kept) < 3 THEN Len(kept) ELSE 3)
  IN [i \in 1..Len(lines) |-> StripMarker(lines[i])]

\* ------------------------------------------------------- fixed strings
\* line 67
fallbackImage == S("https://upload.wikimedia.org/wikipedia/commons/thumb/d/d1/Gandhi_spinning.jpg/640px-Gandhi_spinning.jpg")
\* line 131
NoKeyReply == S("The chronometer is out of sync. Please configure your Telegraph Key (API Key) to communicate across time.")
\* line 163
SmudgedReply == S("The ink is smudged... I cannot hear you clearly.")
\* line 160
Ellipsis == S("...")
\* line 182
TriviaNoKey == Arr(<<S("Telegraph signal lost. Please check API Key configuration.")>>)
\* line 213
TriviaFragmented(location) ==
  Arr(<<Str(<<"Historical records for ", location, " are currently fragmented.">>)>>)
\* lines 237-244
fallback ==
  AltResult(Arr(<<S("The Time Stream is unresponsive."),
                  S("Please ensure the Chrono-Key (API Key) is inserted."),
                  S("Simulation aborted.")>>),
            S("CONNECTION FAILED"))

Locations == {"Delhi", "Paris"}
SuggestionTexts == {"More events please"}
Clock == {2000000, 3000000}

\* --------------------------------------------------- control outcomes
\* what a piece of straight-line code ends with: a return statement (with
\* its value and source line), an exception leaving the function, or the
\* call of generateImage it suspends at
Ret(value, line) == [k |-> "return", value |-> value, line |-> line]
Thrown == [k |-> "throw", value |-> Undef, line |-> 0]
CallImage(value) == [k |-> "image", value |-> value, line |-> 0]

\* the try blocks, had generateImage awaited its request outside its try
HandlerImageUnguarded(o, site) ==
  CASE o = "testApiKey" /\ site = "request" -> "catch"
    [] o = "generateDailyHeadline" /\ site \in {"request", "parse", "recover"} -> "outer"
    [] o = "generateDailyHeadline" /\ site \in {"prompt", "image", "assign"} -> "inner"
    [] o = "chatWithMentor" /\ site = "request" -> "catch"
    [] o = "generateLocationTrivia" /\ site = "request" -> "catch"
    [] o = "simulateAlternateHistory" /\ site \in {"request", "parse"} -> "outer"
    [] o = "simulateAlternateHistory" /\ site \in {"prompt", "image", "assign"} -> "inner"
    [] o = "fetchSuggestions" /\ site \in {"select", "error", "map"} -> "catch"
    [] o = "submitSuggestion" /\ site \in {"insert", "error"} -> "catch"
    [] OTHER -> "none"

\* the try block that encloses a site of an operation: "catch" (the only
\* try of the function), "outer", "inner", or "none"
Handler(o, site) ==
  CASE o = "testApiKey" /\ site = "request" -> "catch"
    [] o = "generateImage" /\ site = "request" -> "catch"
    [] o = "generateDailyHeadline" /\ site \in {"request", "parse", "recover"} -> "outer"
    [] o = "generateDailyHeadline" /\ site \in {"prompt", "image", "assign"} -> "inner"
    [] o = "chatWithMentor" /\ site = "request" -> "catch"
    [] o = "generateLocationTrivia" /\ site = "request" -> "catch"
    [] o = "simulateAlternateHistory" /\ site \in {"request", "parse"} -> "outer"
    [] o = "simulateAlternateHistory" /\ site \in {"prompt", "image", "assign"} -> "inner"
    [] o = "fetchSuggestions" /\ site \in {"select", "error", "map"} -> "catch"
    [] o = "submitSuggestion" /\ site \in {"insert", "error"} -> "catch"
    [] OTHER -> "none"

\* an exception raised at a site: the outcome of the catch block that
\* handles it, or the exception leaves the function
Caught(o, site, onOuter, onInner) ==
  CASE Handler(o, site) \in {"catch", "outer"} -> onOuter
    [] Handler(o, site) = "inner" -> onInner
    [] OTHER -> Thrown

\* reading a property of null or undefined is a TypeError
CanRead(v) == v.t \notin {"null", "undefined"}
\* assigning a property succeeds on objects; on null, undefined and (the
\* module being strict-mode code) on a primitive it is a TypeError
CanAssign(v) == v.t \in {"jobj", "jarr"}
\* v.f
Field(v, f) == IF v.t \in {"jobj", "jarr"} THEN v[f] ELSE Undef

\* ------------------------------------------------------ testApiKey 24-38
TestSettle(resp) ==
  IF resp = Fail
  THEN Caught("testApiKey", "request", Ret(Bool(FALSE), 36), Thrown)
  ELSE Ret(Bool(TRUE), 33)

\* ---------------------------------------------------- generateImage 41-63
\* without a client
ImageNoClient == Ret(Null, 43)
\* after the await of line 46
ImageSettle(resp) ==
  IF resp = Fail
  THEN Caught("generateImage", "request", Ret(Null, 62), Thrown)
  ELSE IF ScanResponse(resp) # Null THEN Ret(ScanResponse(resp), 55) ELSE Ret(Null, 62)

\* -------------------------------------------- generateDailyHeadline 65-120
\* an outer catch block that returned a default article instead of null
HeadlineOuterCatchDefault ==
  Ret([Article(S("EXTRA"), S("1925"), S(""), S("")) EXCEPT !.imageUrl = fallbackImage], 118)

\* lines 116-119, the outer catch block
HeadlineOuterCatch == Ret(Null, 118)

\* lines 110-113, the inner catch block
HeadlineRecover(article) ==
  IF CanAssign(article)
  THEN Ret([article EXCEPT !.imageUrl = fallbackImage], 115)
  ELSE Caught("generateDailyHeadline", "recover", HeadlineOuterCatch, Thrown)

\* a text step that asks for the image whatever the text was
HeadlineAfterTextEager(resp) ==
  IF resp = Fail
  THEN Caught("generateDailyHeadline", "request", HeadlineOuterCatch, Thrown)
  ELSE IF ~Truthy(resp.text) THEN CallImage(Undef)
  ELSE LET article == JSONParse(resp.text.v)
       IN IF article = SyntaxError THEN CallImage(Undef)
          ELSE IF ~CanRead(article)
          THEN Caught("generateDailyHeadline", "prompt", HeadlineOuterCatch, HeadlineRecover(article))
          ELSE CallImage(article)

\* lines 101-106, after the await of line 83
HeadlineAfterText(resp) ==
  IF resp = Fail
  THEN Caught("generateDailyHeadline", "request", HeadlineOuterCatch, Thrown)
  ELSE IF ~Truthy(resp.text) THEN Ret(Null, 102)
  ELSE LET article == JSONParse(resp.text.v)
       IN IF article = SyntaxError
          THEN Caught("generateDailyHeadline", "parse", HeadlineOuterCatch, Thrown)
          ELSE IF ~CanRead(article)
          THEN Caught("generateDailyHeadline", "prompt", HeadlineOuterCatch, HeadlineRecover(article))
          ELSE CallImage(article)

\* lines 107-115 without the `|| fallbackImage` of line 108
HeadlineAfterImageNoDefault(article, image) ==
  IF image.k = "throw"
  THEN Caught("generateDailyHeadline", "image", HeadlineOuterCatch, HeadlineRecover(article))
  ELSE IF CanAssign(article)
  THEN Ret([article EXCEPT !.imageUrl = image.value], 115)
  ELSE Caught("generateDailyHeadline", "assign", HeadlineOuterCatch, HeadlineRecover(article))

\* lines 107-115, after the await of line 107
HeadlineAfterImage(article, image) ==
  IF image.k = "throw"
  THEN Caught("generateDailyHeadline", "image", HeadlineOuterCatch, HeadlineRecover(article))
  ELSE IF CanAssign(article)
  THEN Ret([article EXCEPT !.imageUrl = Or(image.value, fallbackImage)], 115)
  ELSE Caught("generateDailyHeadline", "assign", HeadlineOuterCatch, HeadlineRecover(article))

\* --------------------------------------------------- chatWithMentor 122-165
ChatTexts == {Undef, Str(<<>>), S("Greetings, student."), NoKeyReply, SmudgedReply}

\* chatWithMentor with the two fallback strings interchanged
ChatSettleSwapped(resp) ==
  IF resp = Fail
  THEN Caught("chatWithMentor", "request", Ret(NoKeyReply, 163), Thrown)
  ELSE Ret(Or(resp.text, Ellipsis), 160)

\* lines 155-164, after the await of line 156
ChatSettle(resp) ==
  IF resp = Fail
  THEN Caught("chatWithMentor", "request", Ret(SmudgedReply, 163), Thrown)
  ELSE Ret(Or(resp.text, Ellipsis), 160)

\* ------------------------------------------- generateLocationTrivia 180-214
TriviaSettle(resp, location) ==
  IF resp = Fail
  THEN Caught("generateLocationTrivia", "request", Ret(TriviaFragmented(location), 213), Thrown)
  ELSE IF Truthy(resp.text)
  THEN LET lines == TriviaOf(resp.text.v)
       IN Ret(Arr([i \in 1..Len(lines) |-> Str(lines[i])]), 208)
  ELSE Ret(TriviaFragmented(location), 213)

\* ----------------------------------------- simulateAlternateHistory 234-314
\* an outer catch block that returned absent instead of the fallback
AltOuterCatchAbsent == Ret(Null, 312)

\* lines 310-313, the outer catch block
AltOuterCatch == Ret(fallback, 312)

\* lines 288-301, after the await of line 269
AltAfterText(resp) ==
  IF resp = Fail
  THEN Caught("simulateAlternateHistory", "request", AltOuterCatch, Thrown)
  ELSE IF ~Truthy(resp.text) THEN Ret(fallback, 289)
  ELSE LET res == JSONParse(StripFences(resp.text.v))
       IN IF res = SyntaxError
          THEN Caught("simulateAlternateHistory", "parse", AltOuterCatch, Thrown)
          ELSE IF ~CanRead(res) \/ ~CanRead(Field(res, "timelineSteps"))
          THEN Caught("simulateAlternateHistory", "prompt", AltOuterCatch, Ret(res, 308))
          ELSE CallImage(res)

\* a companion image step whose failure discards the narrative
AltAfterImageStrict(res, image) ==
  IF image.k = "throw" \/ ~Truthy(image.value) THEN AltOuterCatch
  ELSE IF CanAssign(res) THEN Ret([res EXCEPT !.imageUrl = image.value], 308)
  ELSE Caught("simulateAlternateHistory", "assign", AltOuterCatch, Ret(res, 308))

\* lines 302-308, after the await of line 302
AltAfterImage(res, image) ==
  IF image.k = "throw"
  THEN Caught("simulateAlternateHistory", "image", AltOuterCatch, Ret(res, 308))
  ELSE IF ~Truthy(image.value) THEN Ret(res, 308)
  ELSE IF CanAssign(res) THEN Ret([res EXCEPT !.imageUrl = image.value], 308)
  ELSE Caught("simulateAlternateHistory", "assign", AltOuterCatch, Ret(res, 308))

\* ------------------------------------------------ feedback store 917-955
\* the rows of the suggestions table the service may hold
Row(i) == [id |-> [t |-> "num", v |-> i], content |-> "suggestion" \o ToString(i), created_at |-> 10 * i]

RECURSIVE NewestFirst(_)
NewestFirst(ids) ==
  IF ids = {} THEN <<>>
  ELSE LET m == CHOOSE i \in ids : \A j \in ids : j <= i
       IN <<Row(m)>> \o NewestFirst(ids \ {m})

\* what the select resolves to: the call throws, or { data, error }
DbThrow == [t |-> "throw"]
DbError == [t |-> "resp", error |-> S("PGRST"), data |-> Null]
DbData(rows) == [t |-> "resp", error |-> Null, data |-> rows]
SelectResponses ==
  {DbThrow, DbError, DbData(Null)} \cup {DbData(Arr(NewestFirst(ids))) : ids \in SUBSET (1..MaxRows)}
InsertResponses == {DbThrow, DbError, DbData(Null)}

\* lines 935-939
MockSuggestions(now) ==
  Arr(<<[id |-> S("1"), text |-> "More events for the 19th century please!", timestamp |-> now - 100000],
        [id |-> S("2"), text |-> "The Einstein chat is amazing.", timestamp |-> now - 500000],
        [id |-> S("3"), text |-> "Fix the mobile layout overlap.", timestamp |-> now - 1000000]>>)

\* lines 927-931
MapRows(rows) ==
  Arr([i \in 1..Len(rows) |->
        [id |-> rows[i].id, text |-> rows[i].content, timestamp |-> rows[i].created_at]])

\* a catch block that returned an empty list instead of the demo entries
FetchSettleEmpty(resp, now) ==
  IF resp = DbThrow \/ Truthy(resp.error) \/ ~CanRead(resp.data) THEN Ret(Arr(<<>>), 935)
  ELSE Ret(MapRows(resp.data.items), 927)

\* lines 918-940, after the await of line 920
FetchSettle(resp, now) ==
  IF resp = DbThrow THEN Caught("fetchSuggestions", "select", Ret(MockSuggestions(now), 935), Thrown)
  ELSE IF Truthy(resp.error) THEN Caught("fetchSuggestions", "error", Ret(MockSuggestions(now), 935), Thrown)
  ELSE IF ~CanRead(resp.data) THEN Caught("fetchSuggestions", "map", Ret(MockSuggestions(now), 935), Thrown)
  ELSE Ret(MapRows(resp.data.items), 927)

\* an insert whose error field is not looked at
SubmitSettleIgnoringError(resp) ==
  IF resp = DbThrow THEN Caught("submitSuggestion", "insert", Ret(Bool(FALSE), 953), Thrown)
  ELSE Ret(Bool(TRUE), 950)

\* lines 944-954, after the await of line 945
SubmitSettle(resp) ==
  IF resp = DbThrow THEN Caught("submitSuggestion", "insert", Ret(Bool(FALSE), 953), Thrown)
  ELSE IF Truthy(resp.error) THEN Caught("submitSuggestion", "error", Ret(Bool(FALSE), 953), Thrown)
  ELSE Ret(Bool(TRUE), 950)

\* ---------------------------------------------------------------- state
Sections == {"HOME", "CHRONOSCOPE", "MENTORS", "CHRONICLE"}
User == [user |-> [email |-> "traveler@timension.com"]]

NoRequests == [text |-> 0, image |-> 0, db |-> 0]
IdleImage == [st |-> "idle", out |-> Ret(Undef, 0), resp |-> NoResp]
NoImages == [s \in Slots |-> IdleImage]

\* no handleLoad* call yet
NoLoad == [kind |-> "none", requested |-> FALSE]

\* Chronoscope's initial state (App.tsx 404-407); a component that is
\* unmounted loses its state, and the calls it was awaiting come back to
\* nothing
MountChrono ==
  /\ locationInput' = ""
  /\ data' = Null
  /\ view' = "INPUT"
  /\ chronoLoading' = FALSE
  /\ chronoPending' = <<>>
  /\ lastLoad' = NoLoad

\* MentorChat's initial state (App.tsx 585-588)
MountMentor ==
  /\ selectedMentor' = Null
  /\ messages' = <<>>
  /\ input' = ""
  /\ chatLoading' = FALSE
  /\ chatPending' = <<>>
  /\ chatClock' = 0

\* the views of the content area are mounted afresh
MountViews == MountChrono /\ MountMentor

\* LoginView's mount effect (lines 83-94): apiKeySet is true with a global
\* key; otherwise it is what window.aistudio reports, when it is present
MountLogin ==
  /\ loading' = FALSE
  /\ alerts' = 0
  /\ IF hasGlobalApiKey THEN apiKeySet' = TRUE ELSE apiKeySet' \in BOOLEAN

Init ==
  /\ envKey \in EnvKeys
  /\ manualApiKey = Null
  /\ op = "none" /\ pc = "idle" /\ arg = "-" /\ ai = Null
  /\ text = Undef /\ parsed = Undef
  /\ img = NoImages /\ images = <<>>
  /\ requests = NoRequests /\ netlog = <<>>
  /\ result = Undef /\ threw = FALSE /\ retLine = 0
  /\ session = Null /\ currentSection = "HOME" /\ isProfileOpen = FALSE
  /\ loading = FALSE /\ alerts = 0
  /\ apiKeySet \in (IF Truthy(Or(envKey, Null)) THEN {TRUE} ELSE BOOLEAN)
  /\ locationInput = "" /\ data = Null /\ view = "INPUT"
  /\ chronoLoading = FALSE /\ chronoPending = <<>> /\ lastLoad = NoLoad
  /\ selectedMentor = Null /\ messages = <<>> /\ input = ""
  /\ chatLoading = FALSE /\ chatPending = <<>> /\ chatClock = 0

\* no operation is suspended at an await
Idle == pc \in {"idle", "done"}

\* the operation ends with the outcome out
Finish(out) ==
  /\ pc' = "done"
  /\ result' = out.value
  /\ retLine' = out.line
  /\ threw' = (out.k = "throw")

\* the operation suspends at an await
Suspend(at) ==
  /\ pc' = at
  /\ result' = Undef
  /\ retLine' = 0
  /\ threw' = FALSE

\* an operation o starts: everything of the previous one is forgotten
Enter(o, a) ==
  /\ Idle
  /\ op' = o
  /\ arg' = a
  /\ ai' = getClient
  /\ text' = Undef
  /\ parsed' = Undef
  /\ images' = <<>>
  /\ netlog' = <<>>

Logged(kind, ok) == Append(netlog, [kind |-> kind, ok |-> ok])
\* the same for the call of the feedback store: it threw, or it resolved
\* with an error or with data
LoggedDb(resp) ==
  Append(netlog, [kind |-> "db",
                  ok |-> resp # DbThrow /\ ~Truthy(resp.error),
                  how |-> IF resp = DbThrow THEN "throw"
                          ELSE IF Truthy(resp.error) THEN "error" ELSE "data"])
\* the same for the image request of a slot
LoggedImage(slot, ok) == Append(netlog, [kind |-> "image", ok |-> ok, slot |-> slot])

\* ------------------------------------------------------ setManualApiKey 6-8
setManualApiKey(key) ==
  /\ manualApiKey' = key
  /\ UNCHANGED <<views, envKey, call, shell>>

\* -------------------------------------- operations with one text request
TextOps == {"testApiKey", "chatWithMentor", "generateLocationTrivia",
            "generateDailyHeadline", "simulateAlternateHistory"}

\* the value returned without a client
NoClient(o) ==
  CASE o = "testApiKey" -> Ret(Bool(FALSE), 26)
    [] o = "chatWithMentor" -> Ret(NoKeyReply, 131)
    [] o = "generateLocationTrivia" -> Ret(TriviaNoKey, 182)
    [] o = "generateDailyHeadline" -> Ret(Null, 69)
    [] o = "simulateAlternateHistory" -> Ret(fallback, 246)

\* the call of a text operation, up to its first await
CallText(o, a) ==
  /\ Enter(o, a)
  /\ img' = NoImages
  /\ IF getClient = Null
     THEN Finish(NoClient(o)) /\ requests' = NoRequests
     ELSE Suspend("await_text") /\ requests' = [NoRequests EXCEPT !.text = 1]
  /\ UNCHANGED <<views, cred, shell>>

\* what the text request of an operation may resolve to
TextResponses(o) ==
  {Fail} \cup
  {[t |-> "resp", text |-> x] :
     x \in CASE o = "testApiKey" -> {S("pong")}
             [] o = "chatWithMentor" -> ChatTexts
             [] o = "generateLocationTrivia" -> TriviaTexts
             [] o = "generateDailyHeadline" -> TextsOf(ArticleValues)
             [] o = "simulateAlternateHistory" -> TextsOf(AltValues)}

\* the code that runs when the text request settles, up to the next await
AfterText(o, resp, location) ==
  CASE o = "testApiKey" -> TestSettle(resp)
    [] o = "chatWithMentor" -> ChatSettle(resp)
    [] o = "generateLocationTrivia" -> TriviaSettle(resp, location)
    [] o = "generateDailyHeadline" -> HeadlineAfterText(resp)
    [] o = "simulateAlternateHistory" -> AltAfterText(resp)

\* the code that runs when the companion image call has settled
AfterImage(o, value, image) ==
  CASE o = "generateDailyHeadline" -> HeadlineAfterImage(value, image)
    [] o = "simulateAlternateHistory" -> AltAfterImage(value, image)

\* the text request settles
TextSettles(resps) ==
  /\ op \in TextOps
  /\ pc = "await_text"
  /\ \E resp \in resps :
       LET out == AfterText(op, resp, arg)
       IN /\ text' = IF resp = Fail THEN Undef ELSE resp.text
          /\ netlog' = Logged("text", resp # Fail)
          /\ IF out.k = "image"
             THEN /\ parsed' = out.value
                  /\ IF getClient = Null
                     THEN /\ Finish(AfterImage(op, out.value, ImageNoClient))
                          /\ img' = [img EXCEPT ![1] = [st |-> "done", out |-> ImageNoClient, resp |-> NoResp]]
                          /\ requests' = requests
                     ELSE /\ Suspend("await_image")
                          /\ img' = [img EXCEPT ![1] = [IdleImage EXCEPT !.st = "inflight"]]
                          /\ requests' = [requests EXCEPT !.image = @ + 1]
             ELSE /\ parsed' = Undef
                  /\ Finish(out)
                  /\ UNCHANGED <<img, requests>>
  /\ UNCHANGED <<views, cred, op, arg, ai, images, shell>>

TextResponse == TextSettles(TextResponses(op))

\* --------------------------------------- operations that only make images
ImageOps == {"generateImage", "generateVintageMap", "generateHistoricalPhotos"}

\* every image operation sending its request twice
SlotsOfTwice(o) == {1, 2}

\* the prompts of an operation, as the slots of its generateImage calls
SlotsOf(o) == IF o = "generateHistoricalPhotos" THEN {1, 2} ELSE {1}

\* the images returned in the reverse of the order of their push
PhotosReturnReversed(imgs) == Ret(Arr([i \in 1..Len(imgs) |-> imgs[Len(imgs) + 1 - i]]), 230)

\* line 230: return images
PhotosReturn(imgs) == Ret(Arr(imgs), 230)

\* a join that gives up as soon as one call comes back without an image
ImageOpAfterFirstSettled(o, image, imgs, pending) ==
  CASE o = "generateImage" -> image
    [] o = "generateVintageMap" ->
         IF image.k = "throw" THEN Caught(o, "image", Thrown, Thrown) ELSE Ret(image.value, 176)
    [] o = "generateHistoricalPhotos" ->
         IF image.k = "throw" THEN Caught(o, "image", Thrown, Thrown)
         ELSE IF pending = {} \/ ~Truthy(image.value) THEN PhotosReturn(imgs)
         ELSE CallImage(Undef)

\* a generateImage call of an image operation has settled with outcome
\* image, the calls in pending being still in flight; imgs is images
\* after the push of line 227
ImageOpAfter(o, image, imgs, pending) ==
  CASE o = "generateImage" -> image
    [] o = "generateVintageMap" ->
         IF image.k = "throw" THEN Caught(o, "image", Thrown, Thrown) ELSE Ret(image.value, 176)
    [] o = "generateHistoricalPhotos" ->
         IF image.k = "throw" THEN Caught(o, "image", Thrown, Thrown)
         ELSE IF pending = {} THEN PhotosReturn(imgs)
         ELSE CallImage(Undef)

\* a push that puts the default image in the place of a missing one
PushOrDefault(imgs, image) ==
  Append(imgs, IF image.k = "return" /\ Truthy(image.value) THEN image.value ELSE fallbackImage)

\* line 227: if (url) images.push(url)
Push(imgs, image) ==
  IF image.k = "return" /\ Truthy(image.value) THEN Append(imgs, image.value) ELSE imgs

\* the call of an image operation: every generateImage call runs up to its
\* await; without a client each returns null and the operation completes
CallImageOp(o, a) ==
  /\ Enter(o, a)
  /\ IF getClient = Null
     THEN /\ img' = [s \in Slots |-> IF s \in SlotsOf(o)
                                     THEN [st |-> "done", out |-> ImageNoClient, resp |-> NoResp]
                                     ELSE IdleImage]
          /\ requests' = NoRequests
          /\ Finish(ImageOpAfter(o, ImageNoClient, <<>>, {}))
     ELSE /\ img' = [s \in Slots |-> IF s \in SlotsOf(o)
                                     THEN [IdleImage EXCEPT !.st = "inflight"]
                                     ELSE IdleImage]
          /\ requests' = [NoRequests EXCEPT !.image = Cardinality(SlotsOf(o))]
          /\ Suspend("await_image")
  /\ UNCHANGED <<views, cred, shell>>

\* the image request of a slot settles
ImageResponse(slot) ==
  /\ pc = "await_image"
  /\ img[slot].st = "inflight"
  /\ \E resp \in ImageResponses(slot) :
       LET image == ImageSettle(resp)
           pending == {s \in Slots : s # slot /\ img[s].st = "inflight"}
           imgs == Push(images, image)
           out == IF op \in ImageOps THEN ImageOpAfter(op, image, imgs, pending)
                  ELSE AfterImage(op, parsed, image)
       IN /\ img' = [img EXCEPT ![slot] = [st |-> "done", out |-> image, resp |-> resp]]
          /\ netlog' = LoggedImage(slot, resp # Fail)
          /\ images' = imgs
          /\ IF out.k = "image" THEN Suspend("await_image") ELSE Finish(out)
  /\ UNCHANGED <<views, cred, op, arg, ai, text, parsed, requests, shell>>

\* ------------------------------------------------------- feedback store
DbOps == {"fetchSuggestions", "submitSuggestion"}

CallDb(o, a) ==
  /\ Enter(o, a)
  /\ img' = NoImages
  /\ requests' = [NoRequests EXCEPT !.db = 1]
  /\ Suspend("await_db")
  /\ UNCHANGED <<views, cred, shell>>

DbResponse ==
  /\ op \in DbOps
  /\ pc = "await_db"
  /\ \E resp \in (IF op = "fetchSuggestions" THEN SelectResponses ELSE InsertResponses), now \in Clock :
       /\ (op = "submitSuggestion" => now = 2000000)
       /\ netlog' = LoggedDb(resp)
       /\ Finish(IF op = "fetchSuggestions" THEN FetchSettle(resp, now) ELSE SubmitSettle(resp))
  /\ UNCHANGED <<views, cred, op, arg, ai, text, parsed, img, images, requests, shell>>

\* ----------------------------------------------------------- Chronoscope
\* what the user may have typed in the destination field
LocationInputs == {"", " "} \cup Locations
\* locationInput.trim()
TrimInput(s) == IF s = " " THEN "" ELSE s

ContentViews == {"MAP", "TRIVIA", "PHOTOS"}

\* a value held in data, with the location its generator was called with
Kept(value, location) == [t |-> "kept", value |-> value, of |-> location]

\* the responses the image request of a slot may get here
ChronoImageResponses(slot) ==
  {Fail, [t |-> "resp", candidates |-> <<Candidate(<<InlinePart(slot, 1)>>)>>]}

\* what the generator of a content view may resolve to, with a client
Generated(kind, location) ==
  CASE kind = "MAP" ->
         {ImageOpAfter("generateVintageMap", ImageSettle(r), <<>>, {}).value :
            r \in ChronoImageResponses(1)}
    [] kind = "TRIVIA" ->
         {TriviaSettle(r, location).value :
            r \in {Fail,
                   [t |-> "resp", text |-> Str(<<Line(<<>>, 9)>>)],
                   [t |-> "resp", text |-> Str(<<Line(<<>>, 11)>>)]}}
    [] kind = "PHOTOS" ->
         {PhotosReturn(Push(Push(<<>>, ImageSettle(r1)), ImageSettle(r2))).value :
            r1 \in ChronoImageResponses(1), r2 \in ChronoImageResponses(2)}

\* data.vintageMapUrl, data.trivia, data.historicalPhotos
Stored(d, kind) ==
  CASE kind = "MAP" -> d.vintageMapUrl
    [] kind = "TRIVIA" -> d.trivia
    [] kind = "PHOTOS" -> d.historicalPhotos

\* { ...prev, vintageMapUrl: mapUrl || undefined }, { ...prev, trivia: facts },
\* { ...prev, historicalPhotos: photos }
WithStored(d, kind, value, location) ==
  CASE kind = "MAP" ->
         [d EXCEPT !.vintageMapUrl = IF Truthy(value) THEN Kept(value, location) ELSE Undef]
    [] kind = "TRIVIA" -> [d EXCEPT !.trivia = Kept(value, location)]
    [] kind = "PHOTOS" -> [d EXCEPT !.historicalPhotos = Kept(value, location)]

\* Chronoscope is rendered
ChronoShown == session # Null /\ currentSection = "CHRONOSCOPE"

\* the destination field, line 469
TypeLocation(s) ==
  /\ ChronoShown
  /\ view = "INPUT"
  /\ locationInput' = s
  /\ UNCHANGED <<mentor, cred, call, shell, data, view, chronoLoading, chronoPending, lastLoad>>

\* lines 411-415
handleSetLocation ==
  /\ ChronoShown
  /\ view = "INPUT"
  /\ TrimInput(locationInput) # ""
  /\ data' = [location |-> locationInput, vintageMapUrl |-> Undef,
              trivia |-> Undef, historicalPhotos |-> Undef]
  /\ view' = "MENU"
  /\ UNCHANGED <<mentor, cred, call, shell, locationInput, chronoLoading, chronoPending, lastLoad>>

\* handlers that ask again for a list that came back empty
handleLoadUnlessEmpty(kind) ==
  /\ ChronoShown
  /\ view = "MENU"
  /\ data # Null
  /\ view' = kind
  /\ IF Stored(data, kind) = Undef \/ Stored(data, kind).value = Arr(<<>>)
     THEN /\ Len(chronoPending) < MaxPending
          /\ chronoPending' = Append(chronoPending, [kind |-> kind, location |-> data.location])
          /\ chronoLoading' = TRUE
          /\ lastLoad' = [kind |-> kind, requested |-> TRUE]
     ELSE /\ chronoPending' = chronoPending
          /\ chronoLoading' = FALSE
          /\ lastLoad' = [kind |-> kind, requested |-> FALSE]
  /\ UNCHANGED <<mentor, cred, call, shell, locationInput, data>>

\* handleLoadMap, handleLoadTrivia, handleLoadPhotos (lines 417-448) up to
\* the await, or to the end when the content is there already
handleLoad(kind) ==
  /\ ChronoShown
  /\ view = "MENU"
  /\ data # Null
  /\ view' = kind
  /\ IF Stored(data, kind) = Undef
     THEN /\ Len(chronoPending) < MaxPending
          /\ chronoPending' = Append(chronoPending, [kind |-> kind, location |-> data.location])
          /\ chronoLoading' = TRUE
          /\ lastLoad' = [kind |-> kind, requested |-> TRUE]
     ELSE /\ chronoPending' = chronoPending
          /\ chronoLoading' = FALSE
          /\ lastLoad' = [kind |-> kind, requested |-> FALSE]
  /\ UNCHANGED <<mentor, cred, call, shell, locationInput, data>>

\* the generator call of a handler resolves and the handler runs to its end
ChronoSettle(i) ==
  /\ ChronoShown
  /\ i \in 1..Len(chronoPending)
  /\ \E value \in Generated(chronoPending[i].kind, chronoPending[i].location) :
       data' = IF data # Null
               THEN WithStored(data, chronoPending[i].kind, value, chronoPending[i].location)
               ELSE Null
  /\ chronoLoading' = FALSE
  /\ chronoPending' = [j \in 1..(Len(chronoPending) - 1) |->
                         IF j < i THEN chronoPending[j] ELSE chronoPending[j + 1]]
  /\ UNCHANGED <<mentor, cred, call, shell, locationInput, view, lastLoad>>

\* line 524: Back to Menu
BackToMenu ==
  /\ ChronoShown
  /\ view \in ContentViews
  /\ view' = "MENU"
  /\ UNCHANGED <<mentor, cred, call, shell, locationInput, data, chronoLoading, chronoPending, lastLoad>>

\* lines 450-454: New Destination
reset ==
  /\ ChronoShown
  /\ view = "MENU"
  /\ data' = Null
  /\ locationInput' = ""
  /\ view' = "INPUT"
  /\ UNCHANGED <<mentor, cred, call, shell, chronoLoading, chronoPending, lastLoad>>

\* ----------------------------------------------------------- MentorChat
\* two of the four mentors of lines 591-624
Mentor(id) == [t |-> "mentor", id |-> id]
Mentors == {Mentor("einstein"), Mentor("sarojini")}

\* what the user may have typed in the message field
ChatInputs == {"", " ", "hello"}

\* a turn of the conversation; its id is 'init' for the greeting and the time
\* of its creation otherwise: turn is the number of the message sent that
\* the turn is, or is the reply to (0 for the greeting), of the mentor that
\* was selected when the message was sent
ChatMessage(sender, txt, turn, of) ==
  [sender |-> sender, text |-> txt, turn |-> turn, of |-> of]

\* lines 625-630
Greeting(m) == ChatMessage("ai", Str(<<"greeting of ", m.id>>), 0, m)

\* what chatWithMentor may resolve to, with a client
Replies ==
  {ChatSettle(r).value :
     r \in {Fail, [t |-> "resp", text |-> Undef], [t |-> "resp", text |-> S("Greetings, student.")]}}

\* MentorChat is rendered
MentorShown == session # Null /\ currentSection = "MENTORS"

\* line 661: a card of the gallery; the effect of lines 622-631 runs with
\* the new mentor
SelectMentor(m) ==
  /\ MentorShown
  /\ selectedMentor = Null
  /\ selectedMentor' = m
  /\ messages' = <<Greeting(m)>>
  /\ UNCHANGED <<chrono, cred, call, shell, input, chatLoading, chatPending, chatClock>>

\* line 690: the back arrow; the effect runs and does nothing
LeaveMentor ==
  /\ MentorShown
  /\ selectedMentor # Null
  /\ selectedMentor' = Null
  /\ UNCHANGED <<chrono, cred, call, shell, messages, input, chatLoading, chatPending, chatClock>>

\* line 730: the message field
TypeMessage(s) ==
  /\ MentorShown
  /\ selectedMentor # Null
  /\ input' = s
  /\ UNCHANGED <<chrono, cred, call, shell, selectedMentor, messages, chatLoading, chatPending, chatClock>>

\* handleSend, lines 633-640, up to the await of chatWithMentor
handleSend ==
  /\ MentorShown
  /\ selectedMentor # Null
  /\ TrimInput(input) # ""
  /\ chatClock < MaxSends
  /\ chatClock' = chatClock + 1
  /\ messages' = Append(messages, ChatMessage("user", S(input), chatClock + 1, selectedMentor))
  /\ input' = ""
  /\ chatLoading' = TRUE
  /\ chatPending' = Append(chatPending, [turn |-> chatClock + 1, of |-> selectedMentor])
  /\ UNCHANGED <<chrono, cred, call, shell, selectedMentor>>

\* lines 640-643: chatWithMentor resolves and handleSend runs to its end
ReplyArrives(i) ==
  /\ MentorShown
  /\ i \in 1..Len(chatPending)
  /\ \E reply \in Replies :
       messages' = Append(messages, ChatMessage("ai", reply, chatPending[i].turn, chatPending[i].of))
  /\ chatLoading' = FALSE
  /\ chatPending' = [j \in 1..(Len(chatPending) - 1) |->
                       IF j < i THEN chatPending[j] ELSE chatPending[j + 1]]
  /\ UNCHANGED <<chrono, cred, call, shell, selectedMentor, input, chatClock>>

\* ------------------------------------------------------------ the shell
\* LoginView.handleLogin, lines 118-134, up to the await of testApiKey
handleLogin ==
  /\ session = Null
  /\ ~loading
  /\ Idle
  /\ IF ~apiKeySet
     THEN /\ alerts' = 1
          /\ UNCHANGED <<call, loading>>
     ELSE /\ Enter("handleLogin", "-")
          /\ img' = NoImages
          /\ IF getClient = Null
             THEN /\ Finish(NoClient("testApiKey"))
                  /\ requests' = NoRequests
                  /\ alerts' = 1
                  /\ loading' = FALSE
             ELSE /\ Suspend("await_ping")
                  /\ requests' = [NoRequests EXCEPT !.text = 1]
                  /\ alerts' = 0
                  /\ loading' = TRUE
  /\ UNCHANGED <<views, cred, session, currentSection, isProfileOpen, apiKeySet>>

\* a login that opens the session whatever testApiKey returned
LoginResponseAlways ==
  /\ op = "handleLogin"
  /\ pc = "await_ping"
  /\ \E resp \in TextResponses("testApiKey") :
       /\ netlog' = Logged("text", resp # Fail)
       /\ Finish(TestSettle(resp))
       /\ session' = User
       /\ loading' = FALSE
       /\ alerts' = alerts
  /\ UNCHANGED <<views, cred, op, arg, ai, text, parsed, img, images, requests,
                 currentSection, isProfileOpen, apiKeySet>>

\* lines 126-133: testApiKey settles and handleLogin resumes
LoginResponse ==
  /\ op = "handleLogin"
  /\ pc = "await_ping"
  /\ \E resp \in TextResponses("testApiKey") :
       LET out == TestSettle(resp)
       IN /\ netlog' = Logged("text", resp # Fail)
          /\ Finish(out)
          /\ IF out.k = "throw"
             THEN UNCHANGED <<session, loading, alerts>>
             ELSE /\ session' = IF Truthy(out.value) THEN User ELSE session
                  /\ alerts' = IF Truthy(out.value) THEN alerts ELSE alerts + 1
                  /\ loading' = FALSE
  /\ UNCHANGED <<views, cred, op, arg, ai, text, parsed, img, images, requests,
                 currentSection, isProfileOpen, apiKeySet>>

\* a logout that also forgot the key entered by the user
handleLogoutClearingKey ==
  /\ session # Null
  /\ isProfileOpen
  /\ session' = Null
  /\ currentSection' = "HOME"
  /\ isProfileOpen' = FALSE
  /\ manualApiKey' = Null
  /\ MountLogin
  /\ MountViews
  /\ UNCHANGED <<envKey, call>>

\* App.handleLogout, lines 870-874; the LoginView that is rendered next mounts
handleLogout ==
  /\ session # Null
  /\ isProfileOpen
  /\ session' = Null
  /\ currentSection' = "HOME"
  /\ isProfileOpen' = FALSE
  /\ MountLogin
  /\ MountViews
  /\ UNCHANGED <<cred, call>>

\* a navigation bar that is there without a session
NavigateAlways(section) ==
  /\ currentSection' = section
  /\ IF section # currentSection THEN MountViews ELSE UNCHANGED views
  /\ UNCHANGED <<cred, call, session, isProfileOpen, apiKeySet, loading, alerts>>

\* Navigation: onNavigate; App renders the view of the section (lines
\* 897-900), so the view of the section that is left is unmounted
Navigate(section) ==
  /\ session # Null
  /\ currentSection' = section
  /\ IF section # currentSection THEN MountViews ELSE UNCHANGED views
  /\ UNCHANGED <<cred, call, session, isProfileOpen, apiKeySet, loading, alerts>>

\* the profile button and the close button of the vault
SetProfileOpen(open) ==
  /\ session # Null
  /\ isProfileOpen # open
  /\ isProfileOpen' = open
  /\ UNCHANGED <<views, cred, call, session, currentSection, apiKeySet, loading, alerts>>

\* ----------------------------------------------------------------- Next
Call ==
  \/ \E o \in TextOps \ {"generateLocationTrivia"} : CallText(o, "-")
  \/ \E location \in Locations : CallText("generateLocationTrivia", location)
  \/ \E o \in ImageOps : CallImageOp(o, "-")
  \/ CallDb("fetchSuggestions", "-")
  \/ \E s \in SuggestionTexts : CallDb("submitSuggestion", s)

Next ==
  \/ \E key \in ManualKeys : setManualApiKey(key)
  \/ Call
  \/ TextResponse
  \/ \E slot \in Slots : ImageResponse(slot)
  \/ DbResponse
  \/ handleLogin
  \/ LoginResponse
  \/ handleLogout
  \/ \E section \in Sections : Navigate(section)
  \/ \E open \in BOOLEAN : SetProfileOpen(open)

Spec == Init /\ [][Next]_vars

\* ------------------------------------------- the trivia lines in detail
\* generateLocationTrivia alone, its response text drawn from the rich lines
TriviaCall == \E location \in Locations : CallText("generateLocationTrivia", location)

TriviaResponse ==
  /\ op = "generateLocationTrivia"
  /\ TextSettles({Fail} \cup {[t |-> "resp", text |-> x] : x \in TriviaTextsRich})

TriviaNext ==
  \/ TriviaCall
  \/ TriviaResponse

SpecTrivia == Init /\ [][TriviaNext]_vars

\* --------------------------------------------- the Chronoscope in detail
\* login, navigation and the handlers of the Chronoscope
ChronoNext ==
  \/ handleLogin
  \/ LoginResponse
  \/ \E section \in Sections : Navigate(section)
  \/ \E s \in LocationInputs : TypeLocation(s)
  \/ handleSetLocation
  \/ \E kind \in ContentViews : handleLoad(kind)
  \/ \E i \in 1..MaxPending : ChronoSettle(i)
  \/ BackToMenu
  \/ reset

SpecChrono == Init /\ [][ChronoNext]_vars

\* ---------------------------------------------- the MentorChat in detail
\* login, navigation and the handlers of the MentorChat
MentorNext ==
  \/ handleLogin
  \/ LoginResponse
  \/ \E section \in Sections : Navigate(section)
  \/ \E m \in Mentors : SelectMentor(m)
  \/ LeaveMentor
  \/ \E s \in ChatInputs : TypeMessage(s)
  \/ handleSend
  \/ \E i \in 1..MaxSends : ReplyArrives(i)

SpecMentor == Init /\ [][MentorNext]_vars

\* =============================================================== claims
Generators == {"generateImage", "generateDailyHeadline", "chatWithMentor",
               "generateVintageMap", "generateLocationTrivia",
               "generateHistoricalPhotos", "simulateAlternateHistory"}
Done(o) == op = o /\ pc = "done"

\* C1: whenever an environment key is present, the credential getClient
\* resolves is the environment key, whatever keys setManualApiKey was given.
C1_EnvKeyWins ==
  Truthy(envKey) => (getClient # Null /\ getClient.apiKey = envKey)

\* C2 as stated: with no environment key, a setManualApiKey(b) that follows
\* a setManualApiKey(a), a # b, makes b the resolved credential, and no
\* other operation changes the stored key.
C2_SecondKeyResolved ==
  [][/\ \A b \in ManualKeys :
          (~Truthy(envKey) /\ manualApiKey # Null /\ manualApiKey # b /\ setManualApiKey(b))
          => (getClient' # Null /\ getClient'.apiKey = b)
     /\ (manualApiKey' # manualApiKey => \E k \in ManualKeys : setManualApiKey(k))]_vars

\* C2 amended: with no environment key, a setManualApiKey(b) that follows a
\* setManualApiKey(a), a # b, makes b the resolved credential when b is not
\* the empty string and leaves no credential resolved when it is; a is no
\* longer resolved; and the stored key changes in no step other than a
\* setManualApiKey call (generator calls, testApiKey, login, logout and
\* navigation leave it alone).
C2_LastKeyWins ==
  [][/\ \A b \in ManualKeys :
          (~Truthy(envKey) /\ manualApiKey # Null /\ manualApiKey # b /\ setManualApiKey(b))
          => /\ IF b.v # <<>>
                THEN getClient' # Null /\ getClient'.apiKey = b
                ELSE getClient' = Null
             /\ (getClient' # Null => getClient'.apiKey # manualApiKey)
     /\ (manualApiKey' # manualApiKey => \E k \in ManualKeys : setManualApiKey(k))]_vars

\* C2 witness: an operation still holds the client built from the first key
\* k1 while the stored and resolved key is the second key k2, and a login
\* has completed since.
C2_Witness ==
  /\ ~Truthy(envKey)
  /\ op = "generateDailyHeadline" /\ pc = "await_image"
  /\ ai # Null /\ ai.apiKey = S("k1")
  /\ manualApiKey = S("k2")
  /\ getClient # Null /\ getClient.apiKey = S("k2")
  /\ session # Null

\* the operation was called while no credential was resolved
NoCredentialAtCall == IF ai = Null THEN TRUE ELSE ~Truthy(ai.apiKey)

\* C3: called while no credential is resolved, every operation has returned
\* its absent / false / fallback value at once and has issued no request.
C3_NoCredentialNoRequest ==
  (op \in Generators \cup {"testApiKey"} /\ NoCredentialAtCall) =>
     /\ pc = "done"
     /\ ~threw
     /\ requests = [text |-> 0, image |-> 0, db |-> 0]
     /\ netlog = <<>>
     /\ result = CASE op = "testApiKey" -> Bool(FALSE)
                   [] op = "generateImage" -> Null
                   [] op = "generateDailyHeadline" -> Null
                   [] op = "chatWithMentor" -> NoKeyReply
                   [] op = "generateVintageMap" -> Null
                   [] op = "generateLocationTrivia" -> TriviaNoKey
                   [] op = "generateHistoricalPhotos" -> Arr(<<>>)
                   [] op = "simulateAlternateHistory" -> fallback

\* C3 witness: simulateAlternateHistory was called after the key had been
\* set to the empty string, and returned the fallback without a request.
C3_Witness ==
  /\ Done("simulateAlternateHistory")
  /\ ~Truthy(envKey) /\ manualApiKey = Str(<<>>)
  /\ ai = Null
  /\ result = fallback
  /\ requests.text = 0 /\ requests.image = 0

\* ------------------------------------------------------------------ C4
\* every request the operation issued has failed
AllRequestsFailed == netlog # <<>> /\ \A i \in 1..Len(netlog) : ~netlog[i].ok
\* the text request succeeded and its text is empty or is not JSON at all
TextMalformed ==
  /\ op \in {"generateDailyHeadline", "simulateAlternateHistory"}
  /\ netlog # <<>> /\ netlog[1].ok
  /\ text \in {Undef, Str(<<>>), Str(<<TJunk>>)}

\* the absent / fallback values of an operation
FallbackValues(o) ==
  CASE o = "generateImage" -> {Null}
    [] o = "generateDailyHeadline" -> {Null}
    [] o = "chatWithMentor" ->
         {S("The chronometer is out of sync. Please configure your Telegraph Key (API Key) to communicate across time."),
          S("The ink is smudged... I cannot hear you clearly.")}
    [] o = "generateVintageMap" -> {Null}
    [] o = "generateLocationTrivia" ->
         {Arr(<<S("Telegraph signal lost. Please check API Key configuration.")>>),
          Arr(<<Str(<<"Historical records for ", arg, " are currently fragmented.">>)>>)}
    [] o = "generateHistoricalPhotos" -> {Arr(<<>>)}
    [] o = "simulateAlternateHistory" -> {fallback}
    [] o = "fetchSuggestions" -> {MockSuggestions(now) : now \in Clock}
    [] o = "submitSuggestion" -> {Bool(FALSE)}

ConformsArticle(v) ==
  /\ v.t = "jobj"
  /\ \A f \in {"headline", "date", "content", "weather"} : v[f].t = "str"

ConformsAlt(v) ==
  /\ v.t = "jobj"
  /\ v.timelineSteps.t = "array"
  /\ \A i \in 1..Len(v.timelineSteps.items) : v.timelineSteps.items[i].t = "str"
  /\ v.finalHeadline.t = "str"

\* C5: a structured generator returns absent / the fallback or an object
\* that conforms to its declared schema, never a non-conforming object.
C5_SchemaOrAbsent ==
  /\ Done("generateDailyHeadline") => (result = Null \/ ConformsArticle(result))
  /\ Done("simulateAlternateHistory") =>
       (result = Null \/ result = fallback \/ ConformsAlt(result))

\* ------------------------------------------------------------------ C6
\* the outcomes a generateImage call can have
ImageOutcomes == {ImageNoClient} \cup {ImageSettle(r) : r \in ImageResponses(1)}

\* what the generator returns for the payload delivered without a fence,
\* with the image outcome of this run where it has one
UnfencedResults(o, payload) ==
  LET a == AfterText(o, [t |-> "resp", text |-> Str(Bare(payload))], arg)
  IN IF a.k = "image"
     THEN {AfterImage(o, a.value, i).value :
             i \in (IF img[1].st = "done" THEN {img[1].out} ELSE ImageOutcomes)}
     ELSE {a.value}

\* C6: for both structured generators, a JSON payload wrapped in
\* ```json ... ``` gives the result the bare payload gives.
C6_FenceIgnored ==
  \A o \in {"generateDailyHeadline", "simulateAlternateHistory"} :
    \A payload \in (IF o = "generateDailyHeadline" THEN ArticleValues ELSE AltValues) :
      (Done(o) /\ text = Str(FencedJson(payload))) => result \in UnfencedResults(o, payload)

\* ------------------------------------------------------------------ C7
HasInline(parts) == \E i \in 1..Len(parts) : parts[i].kind = "inlineData"
FirstInline(parts) ==
  CHOOSE i \in 1..Len(parts) :
    /\ parts[i].kind = "inlineData"
    /\ \A j \in 1..(i - 1) : parts[j].kind # "inlineData"

ExpectedImage(resp) ==
  IF resp.t # "resp" THEN Null
  ELSE IF resp.candidates = <<>> THEN Null
  ELSE IF ~resp.candidates[1].hasParts THEN Null
  ELSE IF ~HasInline(resp.candidates[1].parts) THEN Null
  ELSE Str(<<"data:image/png;base64,",
             resp.candidates[1].parts[FirstInline(resp.candidates[1].parts)].data>>)

\* C7: generateImage returns the data URI of the first part of the first
\* candidate that carries inline data, and absent when the request fails,
\* when there is no candidate or no parts, or when no part of the first
\* candidate carries inline data.
C7_FirstInlinePart ==
  /\ Done("generateImage") => (~threw /\ result = ExpectedImage(img[1].resp))
  /\ \A s \in Slots : img[s].st = "done" =>
        (img[s].out.k = "return" /\ img[s].out.value = ExpectedImage(img[s].resp))

\* C7 witness: the first candidate has a text part followed by an inline
\* part, and generateImage returned the data URI of that inline part.
C7_Witness ==
  /\ Done("generateImage")
  /\ img[1].resp = [t |-> "resp", candidates |-> <<Candidate(<<TextPart, InlinePart(1, 2)>>)>>]
  /\ result = Str(<<"data:image/png;base64,", "img1_2">>)

\* ------------------------------------------------------------------ C8
\* the text request succeeded and its text is the JSON of an object
\* (possibly surrounded by white space)
TextIsObject ==
  /\ netlog # <<>> /\ netlog[1].kind = "text" /\ netlog[1].ok
  /\ \E v \in ArticleValues : v.t \in {"jobj", "jarr"} /\ text \in {Str(Bare(v)), Str(Padded(v))}

\* C8: generateDailyHeadline returns absent only when the text step did not
\* yield an object; when it did, the returned article carries an imageUrl
\* that is the generated image or, when image generation gave nothing, the
\* fixed default image, never missing or empty.
C8_ImageOrDefault ==
  Done("generateDailyHeadline") =>
     /\ result = Null => ~TextIsObject
     /\ TextIsObject =>
          /\ result.t \in {"jobj", "jarr"}
          /\ img[1].st = "done"
          /\ Truthy(result.imageUrl)
          /\ result.imageUrl =
               (IF Truthy(img[1].out.value) THEN img[1].out.value
                ELSE S("https://upload.wikimedia.org/wikipedia/commons/thumb/d/d1/Gandhi_spinning.jpg/640px-Gandhi_spinning.jpg"))

\* C8 witness: the text step gave an article, the image request failed, and
\* the article came back with the default image.
C8_Witness ==
  /\ Done("generateDailyHeadline")
  /\ TextIsObject
  /\ img[1].resp = Fail
  /\ result.t = "jobj"
  /\ result.headline = S("MOON REACHED")
  /\ result.imageUrl = fallbackImage

\* ------------------------------------------------------------------ C9
\* C9 as stated: with a credential and every request failing,
\* generateDailyHeadline returns a value whose imageUrl is the default image.
C9_DefaultImageWhenNetworkDown ==
  (Done("generateDailyHeadline") /\ ai # Null /\ AllRequestsFailed) =>
     (result.t = "jobj" /\ result.imageUrl = fallbackImage)

\* C9 amended: with a credential and every request failing,
\* generateDailyHeadline returns absent after its one text request; it is
\* when the text step succeeds and only the image request fails that the
\* returned value's imageUrl is the default image.
C9_AbsentWhenNetworkDown ==
  Done("generateDailyHeadline") =>
     /\ (ai # Null /\ AllRequestsFailed) =>
          (result = Null /\ requests = [text |-> 1, image |-> 0, db |-> 0])
     /\ (TextIsObject /\ img[1].resp = Fail) =>
          (result.t \in {"jobj", "jarr"} /\ result.imageUrl = fallbackImage)

\* C9 witness: a credential was set and the text request failed.
C9_Witness ==
  /\ Done("generateDailyHeadline")
  /\ ai # Null /\ ai.apiKey = S("k1")
  /\ netlog = <<[kind |-> "text", ok |-> FALSE]>>
  /\ result = Null

\* ----------------------------------------------------------------- C10
\* C10: chatWithMentor returns the first apology (line 131) exactly when no
\* credential was resolved and the second, different string (line 163)
\* exactly when the request failed with a credential; a successful request
\* returns the response text (or "..."), never one of them as a fallback.
C10_TwoFallbacks ==
  Done("chatWithMentor") =>
     /\ NoKeyReply # SmudgedReply
     /\ ~threw
     /\ retLine \in {131, 160, 163}
     /\ retLine = 131 <=> ai = Null
     /\ retLine = 163 <=> (ai # Null /\ netlog = <<[kind |-> "text", ok |-> FALSE]>>)
     /\ retLine = 160 <=> (ai # Null /\ netlog = <<[kind |-> "text", ok |-> TRUE]>>)
     /\ retLine = 131 => (result = S("The chronometer is out of sync. Please configure your Telegraph Key (API Key) to communicate across time.") /\ netlog = <<>>)
     /\ retLine = 163 => result = S("The ink is smudged... I cannot hear you clearly.")
     /\ retLine = 160 => result = (IF text.t = "str" /\ text.v # <<>> THEN text ELSE S("..."))

\* C10 witness: with a credential the request failed and the second string
\* was returned.
C10_Witness ==
  /\ Done("chatWithMentor")
  /\ ai # Null
  /\ netlog = <<[kind |-> "text", ok |-> FALSE]>>
  /\ result = SmudgedReply


\* ---------------------------------------------------------------- C11
BeginsWithMarker(l) ==
  LET nd == LeadingDigits(l)
  IN nd >= 1 /\ Len(l) >= nd + 2 /\ l[nd + 1] \in {".", ")"} /\ l[nd + 2] = " "

TriviaDone == Done("generateLocationTrivia")

\* C11: the trivia list has at most 3 entries and no entry begins with an
\* enumeration marker (digits, then '.' or ')', then whitespace), whatever
\* the lines of the response carried
C11_NoLeadingMarker ==
  TriviaDone =>
    /\ result.t = "array"
    /\ Len(result.items) <= 3
    /\ \A i \in 1..Len(result.items) : ~BeginsWithMarker(result.items[i].v)

\* ---------------------------------------------------------------- C12
\* the service yielded nothing usable: no client, a failed request, an
\* empty text, or a text whose lines all fall to the length filter
NothingUsable ==
  \/ netlog = <<>>
  \/ ~netlog[1].ok
  \/ ~Truthy(text)
  \/ \A i \in 1..Len(Split(text.v)) : Len(Split(text.v)[i]) <= 10

\* C12: generateLocationTrivia never returns an empty list; when the service
\* yielded nothing usable it returns exactly one fallback sentence
C12_NeverEmpty ==
  TriviaDone =>
    /\ result.t = "array"
    /\ result.items # <<>>
    /\ NothingUsable => result \in {TriviaNoKey, TriviaFragmented(arg)}

\* ---------------------------------------------------------------- C13
IsSuffix(e, l) == Len(e) <= Len(l) /\ SubSeq(l, Len(l) - Len(e) + 1, Len(l)) = e

\* the request succeeded with a non-empty text
TriviaFromText ==
  TriviaDone /\ netlog # <<>> /\ netlog[1].ok /\ Truthy(text)

\* the entries come, in order, from the first 3 lines of at least min
\* characters
KeptFrom(min) ==
  LET kept == SelectSeq(Split(text.v), LAMBDA l : Len(l) >= min)
      n == IF Len(kept) < 3 THEN Len(kept) ELSE 3
  IN /\ result.t = "array"
     /\ Len(result.items) = n
     /\ \A i \in 1..n : IsSuffix(result.items[i].v, kept[i])

\* C13 as stated: exactly the lines shorter than 10 characters are dropped
\* (length 10 or more kept, 9 or less dropped), and the cap of 3 applies to
\* the surviving lines in their original order
C13_KeepsTenOrMore == TriviaFromText => KeptFrom(10)

\* C13 amended: exactly the lines of 10 characters or fewer are dropped
\* (length 11 or more kept), and the cap of 3 applies to the surviving
\* lines in their original order
C13_KeepsElevenOrMore == TriviaFromText => KeptFrom(11)

C13_Witness ==
  /\ TriviaFromText
  /\ text = Str(<<Line(<<>>, 10), Line(<<>>, 11), Line(<<"2", ")", " ">>, 8),
                  Line(<<" ", "1", ".", " ">>, 10)>>)
  /\ result = Arr(<<Str(Line(<<>>, 11)), Str(Line(<<>>, 8)),
                    Str(Line(<<" ", "1", ".", " ">>, 10))>>)

\* ---------------------------------------------------------------- C14
PhotosDone == Done("generateHistoricalPhotos")

\* the slots whose image request came back with an image
Succeeded == {s \in Slots : img[s].st = "done" /\ ExpectedImage(img[s].resp) # Null}

\* C14: generateHistoricalPhotos returns a list (never absent, never an
\* exception) holding exactly the images of the requests that succeeded:
\* none, one or two entries, and never the default image
C14_OnePerSuccess ==
  PhotosDone =>
    /\ ~threw
    /\ result.t = "array"
    /\ Len(result.items) = Cardinality(Succeeded)
    /\ \A s \in Succeeded : \E i \in 1..Len(result.items) :
          result.items[i] = ExpectedImage(img[s].resp)
    /\ \A i \in 1..Len(result.items) : result.items[i] # fallbackImage

\* C14 witness: the first request failed, the second gave an image, and the
\* list returned has that image alone
C14_Witness ==
  /\ PhotosDone
  /\ img[1].resp = Fail
  /\ Succeeded = {2}
  /\ result = Arr(<<ExpectedImage(img[2].resp)>>)

\* ---------------------------------------------------------------- C15
\* C15: generateHistoricalPhotos has both image requests issued before
\* either has completed, and it does not return while one of them is
\* still in flight, whether the other succeeded or failed
C15_BothLaunchedBothAwaited ==
  (op = "generateHistoricalPhotos" /\ ai # Null) =>
    /\ requests.image = 2
    /\ \A s \in Slots : img[s].st \in {"inflight", "done"}
    /\ (\E s \in Slots : img[s].st = "inflight") => pc = "await_image"
    /\ pc = "done" => \A s \in Slots : img[s].st = "done"

\* C15 witness: the first request has failed and the operation is still
\* suspended on the second one
C15_Witness ==
  /\ op = "generateHistoricalPhotos"
  /\ pc = "await_image"
  /\ img[1].st = "done" /\ img[1].resp = Fail
  /\ img[2].st = "inflight"

\* ---------------------------------------------------------------- C16
\* C16: when both photo requests gave an image, the list returned has them
\* in the order in which the requests completed: the image of the request
\* that completed first is at index 0, whichever was issued first
C16_CompletionOrder ==
  (PhotosDone /\ Succeeded = {1, 2}) =>
    /\ Len(netlog) = 2
    /\ result = Arr(<<ExpectedImage(img[netlog[1].slot].resp),
                      ExpectedImage(img[netlog[2].slot].resp)>>)

\* C16 witness: the request issued second completed first, and its image is
\* at index 0
C16_Witness ==
  /\ PhotosDone
  /\ Succeeded = {1, 2}
  /\ netlog[1].slot = 2
  /\ result.items[1] = ExpectedImage(img[2].resp)
  /\ result.items[2] = ExpectedImage(img[1].resp)

\* ---------------------------------------------------------------- C17
AltDone == Done("simulateAlternateHistory")

\* no credential at the call, a failed text request, or an empty text
Unreachable ==
  \/ ai = Null
  \/ netlog # <<>> /\ ~netlog[1].ok
  \/ netlog # <<>> /\ netlog[1].ok /\ ~Truthy(text)

\* C17: when the AI service is unreachable (no credential, failed request
\* or empty response text) simulateAlternateHistory returns the fixed
\* fallback: exactly 3 timeline steps, the headline 'CONNECTION FAILED' and
\* no image, without throwing and without an image request
C17_FallbackWhenUnreachable ==
  (AltDone /\ Unreachable) =>
    /\ ~threw
    /\ result.t = "jobj"
    /\ result.timelineSteps =
         Arr(<<S("The Time Stream is unresponsive."),
               S("Please ensure the Chrono-Key (API Key) is inserted."),
               S("Simulation aborted.")>>)
    /\ result.finalHeadline = S("CONNECTION FAILED")
    /\ result.imageUrl = Undef
    /\ requests.image = 0

\* C17 witness: the text request failed and the fallback came back from
\* the outer catch block
C17_Witness ==
  /\ AltDone
  /\ netlog = <<[kind |-> "text", ok |-> FALSE]>>
  /\ retLine = 312
  /\ result.finalHeadline = S("CONNECTION FAILED")

\* ---------------------------------------------------------------- C18
\* the JSON value the text of the response carries
Narrative ==
  CHOOSE v \in AltValues :
    text \in {Str(Bare(v)), Str(Padded(v)), Str(FencedJson(v)), Str(FencedPlain(v))}

\* C18: once the narrative step of simulateAlternateHistory has succeeded
\* and its image call has settled, the outcome of the image affects only
\* imageUrl (the image when there is one, omitted otherwise); the timeline
\* steps and the headline are those of the narrative, never the fallback
C18_ImageOnlyAffectsImageUrl ==
  (AltDone /\ img[1].st = "done") =>
    /\ ~threw
    /\ result.t = "jobj"
    /\ result.timelineSteps = Narrative.timelineSteps
    /\ result.finalHeadline = Narrative.finalHeadline
    /\ result.imageUrl = IF ExpectedImage(img[1].resp) # Null
                         THEN ExpectedImage(img[1].resp) ELSE Undef
    /\ result # fallback

\* C18 witness: the image request failed and the narrative came back whole,
\* without an image
C18_Witness ==
  /\ AltDone
  /\ text = Str(Bare(AltResult(Steps(3), S("EMPIRE ENDURES"))))
  /\ img[1].st = "done" /\ img[1].resp = Fail
  /\ result = AltResult(Steps(3), S("EMPIRE ENDURES"))

\* ---------------------------------------------------------------- C19
FetchDone == Done("fetchSuggestions")

\* C19: when the select of fetchSuggestions throws or resolves with an
\* error, the 3 demo entries with ids '1', '2', '3' are returned in that
\* order, and nothing is thrown to the caller
C19_DemoEntriesOnFailure ==
  (FetchDone /\ netlog[1].how \in {"throw", "error"}) =>
    /\ ~threw
    /\ result.t = "array"
    /\ Len(result.items) = 3
    /\ [i \in 1..3 |-> result.items[i].id] = <<S("1"), S("2"), S("3")>>
    /\ [i \in 1..3 |-> result.items[i].text] =
         <<"More events for the 19th century please!",
           "The Einstein chat is amazing.",
           "Fix the mobile layout overlap.">>
    /\ result.items[1].timestamp - result.items[2].timestamp = 400000
    /\ result.items[2].timestamp - result.items[3].timestamp = 500000

\* C19 witness: the select threw and the demo entries came back
C19_Witness ==
  /\ FetchDone
  /\ netlog[1].how = "throw"
  /\ retLine = 935
  /\ Len(result.items) = 3
  /\ result.items[1].id = S("1")

\* ---------------------------------------------------------------- C20
\* C20: submitSuggestion issues exactly one insert, never throws, and
\* returns true exactly when that insert resolved without an error (false
\* when it resolved with an error or threw)
C20_TrueIffInserted ==
  op = "submitSuggestion" =>
    /\ requests.db = 1
    /\ ~threw
    /\ pc = "done" =>
         /\ Len(netlog) = 1
         /\ result = Bool(netlog[1].how = "data")

\* C20 witness: the insert resolved with an error and false came back
C20_Witness ==
  /\ Done("submitSuggestion")
  /\ netlog[1].how = "error"
  /\ result = Bool(FALSE)

\* ---------------------------------------------------------------- C21
\* the requests one invocation may issue
MaxText(o) ==
  IF o \in TextOps \cup {"handleLogin"} THEN 1 ELSE 0
MaxImage(o) ==
  CASE o \in {"generateImage", "generateVintageMap",
              "generateDailyHeadline", "simulateAlternateHistory"} -> 1
    [] o = "generateHistoricalPhotos" -> 2
    [] OTHER -> 0

\* a request has just failed
RequestFailed ==
  /\ Len(netlog') = Len(netlog) + 1
  /\ ~netlog'[Len(netlog')].ok

\* C21: no operation retries: an invocation issues each of its requests at
\* most once (1 text request, 1 image request, 2 for the photos), and a
\* failed request is followed at once by the result of the operation (or,
\* for the photos, by the wait for the other request), never by a new
\* request
C21_NoRetry ==
  [][/\ requests'.text <= MaxText(op')
     /\ requests'.image <= MaxImage(op')
     /\ requests'.db <= 1
     /\ RequestFailed =>
          /\ requests' = requests
          /\ \/ pc' = "done"
             \/ op = "generateHistoricalPhotos" /\ \E s \in Slots : img'[s].st = "inflight"]_vars

\* C21 witness: the image request of generateDailyHeadline failed after its
\* text request succeeded, and the operation ended with one request of each
C21_Witness ==
  /\ Done("generateDailyHeadline")
  /\ Len(netlog) = 2
  /\ netlog[1].ok /\ ~netlog[2].ok
  /\ requests = [text |-> 1, image |-> 1, db |-> 0]

\* ---------------------------------------------------------------- C27
TwoStepOps == {"generateDailyHeadline", "simulateAlternateHistory"}

\* the text of the response carries a JSON value, bare or wrapped
CarriesJson ==
  \E v \in ArticleValues \cup AltValues :
    text \in {Str(Bare(v)), Str(Padded(v)), Str(FencedJson(v)), Str(FencedPlain(v))}

\* the text step failed: the request failed, or the text is empty or holds
\* no JSON value
TextStepFailed ==
  /\ netlog # <<>>
  /\ \/ ~netlog[1].ok
     \/ ~Truthy(text)
     \/ ~CarriesJson

\* C27: in generateDailyHeadline and simulateAlternateHistory the image
\* request is issued only after the text response has arrived and parsed;
\* when the text step failed no image request is issued
C27_ImageAfterText ==
  op \in TwoStepOps =>
    /\ requests.image > 0 =>
         /\ netlog # <<>> /\ netlog[1].kind = "text" /\ netlog[1].ok
         /\ Truthy(text)
         /\ CarriesJson
    /\ TextStepFailed => requests.image = 0

\* C27 witness: the text of simulateAlternateHistory has arrived and
\* parsed, and the image request is in flight
C27_Witness ==
  /\ op = "simulateAlternateHistory"
  /\ pc = "await_image"
  /\ netlog = <<[kind |-> "text", ok |-> TRUE]>>
  /\ requests = [text |-> 1, image |-> 1, db |-> 0]

\* ---------------------------------------------------------------- C28
\* C28: simulateAlternateHistory never resolves to absent: whatever the
\* response text, it resolves to the fixed fallback or to an object that
\* carries timelineSteps and finalHeadline
C28_NeverAbsent ==
  AltDone =>
    /\ ~threw
    /\ result # Null
    /\ \/ result = fallback
       \/ /\ result.t = "jobj"
          /\ result.timelineSteps # Undef
          /\ result.finalHeadline # Undef

\* ---------------------------------------------------------------- C24
\* C24: a session is established only by a login attempt whose own
\* connectivity check returned true; a check starts only when a key is
\* marked as set and none is in flight (the button is disabled while
\* loading); without a key marked as set the attempt only shows an alert;
\* a check that returns false shows an alert and leaves the session absent
C24_SessionOnlyAfterCheck ==
  [][/\ (session = Null /\ session' # Null) =>
          /\ op = "handleLogin" /\ pc = "await_ping" /\ pc' = "done"
          /\ result' = Bool(TRUE)
          /\ netlog' = <<[kind |-> "text", ok |-> TRUE]>>
     /\ (pc # "await_ping" /\ pc' = "await_ping") =>
          /\ apiKeySet /\ session = Null
          /\ ~loading /\ loading'
          /\ requests'.text = 1
     /\ pc = "await_ping" => (loading /\ session = Null /\ requests.text = 1)
     /\ (session = Null /\ ~apiKeySet /\ alerts' # alerts) =>
          (alerts' = 1 /\ requests' = requests /\ pc' = pc)
     /\ (pc = "await_ping" /\ pc' = "done" /\ result' = Bool(FALSE)) =>
          (session' = Null /\ alerts' = alerts + 1)]_vars

\* C24 witness: the connectivity check of a login attempt returned true and
\* the session is established
C24_Witness ==
  /\ Done("handleLogin")
  /\ result = Bool(TRUE)
  /\ session = User
  /\ ~loading

\* ---------------------------------------------------------------- C30
\* C30: logout makes the session absent, the section HOME and the profile
\* panel closed in one step; without a session the section stays HOME and
\* the panel closed, the session comes back only when the connectivity
\* check of a new login attempt returns true, and the section is then HOME
C30_LogoutResets ==
  [][/\ (session # Null /\ session' = Null) =>
          (currentSection' = "HOME" /\ ~isProfileOpen')
     /\ session = Null => (currentSection = "HOME" /\ ~isProfileOpen)
     /\ (session = Null /\ session' # Null) =>
          /\ op = "handleLogin" /\ pc = "await_ping"
          /\ result' = Bool(TRUE)
          /\ currentSection' = "HOME" /\ ~isProfileOpen']_vars

\* C30 witness: the state after a logout that followed a successful login:
\* the session is absent again, the section is HOME and the panel closed
C30_Witness ==
  /\ session = Null
  /\ currentSection = "HOME"
  /\ ~isProfileOpen
  /\ Done("handleLogin")
  /\ result = Bool(TRUE)

\* ---------------------------------------------------------------- C25
\* a content view is shown and the generator call that will fill it for
\* the locked location has not come back
FillInFlight ==
  /\ ChronoShown
  /\ view \in ContentViews
  /\ \E i \in 1..Len(chronoPending) :
       chronoPending[i] = [kind |-> view, location |-> data.location]

\* lines 546 and 570: the messages of a map or a photo list that is not there
EmptyMessageShown ==
  /\ ChronoShown
  /\ ~chronoLoading
  /\ \/ view = "MAP" /\ data.vintageMapUrl = Undef
     \/ view = "PHOTOS" /\ (data.historicalPhotos = Undef \/ data.historicalPhotos.value.items = <<>>)

\* C25: whenever a content view is shown while the request that will fill
\* it is in flight, the loading flag is true, so the message of an empty
\* result is not shown before that request has settled
C25_LoadingWhileInFlight ==
  FillInFlight => (chronoLoading /\ ~EmptyMessageShown)

\* ---------------------------------------------------------------- C26
\* C26: the map, trivia and photos held in the Chronoscope data were
\* generated for the location that is locked: a result arriving after a
\* reset and the lock of another location is not attached to the new data
C26_DataOfLockedLocation ==
  (ChronoShown /\ data # Null) =>
    \A kind \in ContentViews :
      Stored(data, kind) # Undef => Stored(data, kind).of = data.location

\* ---------------------------------------------------------------- C29
\* the number of calls of a kind that are in flight
InFlight(p, kind) == Cardinality({i \in 1..Len(p) : p[i].kind = kind})

\* C29: for the locked location, opening a content view whose result is
\* held in the data issues no generation request, and opening one whose
\* result is not held issues one; a trivia or photo result is held once
\* its call has come back, be it empty or a fallback, while a map is held
\* only when there is an image, so that a failed map is requested again
C29_StoredNotRequestedAgain ==
  [][/\ (ChronoShown /\ view = "MENU" /\ view' \in ContentViews) =>
          IF Stored(data, view') # Undef
          THEN chronoPending' = chronoPending
          ELSE chronoPending' =
                 Append(chronoPending, [kind |-> view', location |-> data.location])
     /\ \A kind \in {"TRIVIA", "PHOTOS"} :
          (InFlight(chronoPending', kind) < InFlight(chronoPending, kind) /\ data' # Null)
            => Stored(data', kind) # Undef
     /\ (ChronoShown' /\ data' # Null /\ data'.vintageMapUrl # Undef)
            => Truthy(data'.vintageMapUrl.value)]_vars

\* C29 witness: the photo list came back empty and is held; the photos view
\* has been opened again and no request was made
C29_Witness ==
  /\ ChronoShown
  /\ view = "PHOTOS"
  /\ lastLoad = [kind |-> "PHOTOS", requested |-> FALSE]
  /\ data.historicalPhotos # Undef
  /\ data.historicalPhotos.value = Arr(<<>>)
  /\ chronoPending = <<>>

\* ---------------------------------------------------------------- C22
\* the turn at position i was made in the conversation shown: it is the
\* greeting of the selected mentor at the head, a message sent to that
\* mentor, or the reply to a message that stands before it in the list
OfThisConversation(i) ==
  LET m == messages[i]
  IN /\ m.of = selectedMentor
     /\ IF i = 1 THEN m = Greeting(selectedMentor)
        ELSE \/ m.sender = "user"
             \/ /\ m.sender = "ai"
                /\ \E j \in 2..(i - 1) :
                     messages[j].sender = "user" /\ messages[j].turn = m.turn

\* C22: the conversation of a selected mentor holds only the greeting of
\* that mentor and the turns made since it was selected: no turn of an
\* earlier conversation, not even the reply to a message that was in flight
\* when the user switched, appears in it
C22_DiscardedOnSwitch ==
  (MentorShown /\ selectedMentor # Null) =>
    /\ messages # <<>>
    /\ \A i \in 1..Len(messages) : OfThisConversation(i)

\* ---------------------------------------------------------------- C23
\* C23: while one mentor stays selected, every change of the message list
\* appends exactly one turn at its end and leaves the earlier turns as they
\* were, and a reply is appended after the user turn that triggered it,
\* which stands in the list
C23_AppendOnly ==
  [][(MentorShown /\ selectedMentor # Null /\ selectedMentor' = selectedMentor
        /\ messages' # messages) =>
       /\ Len(messages') = Len(messages) + 1
       /\ SubSeq(messages', 1, Len(messages)) = messages
       /\ messages'[Len(messages')].sender = "ai" =>
            \E j \in 1..Len(messages) :
              /\ messages[j].sender = "user"
              /\ messages[j].turn = messages'[Len(messages')].turn]_vars
====
